---- MODULE Spec2Model ----
(***************************************************************************)
(* Model of streamlit.py: the sales dashboard script.  The script reads a  *)
(* CSV of raw transactions, groups it (get_sales_data), derives the city   *)
(* list (get_cities), applies the city selected in the sidebar, derives    *)
(* the month-to-date table, the four KPI sums, the cumulative series       *)
(* (get_cumulative_sales) and the month colour map.  Streamlit re-executes *)
(* the whole script on every change of the selection.                      *)
(*                                                                         *)
(* Strings that are compared or ordered (city names) are sequences of      *)
(* character codes; the Price column is a sequence of characters.  Money   *)
(* amounts are exact fixed-point numbers in thousandths (1.234 == 1234).   *)
(***************************************************************************)
EXTENDS Integers, Sequences, FiniteSets, Bags, TLC

VARIABLES pc, data, db_dataset, db_cities, selected_city, filtered_sales,
          mtd_filtered_sales, kpi_sales_ytd, kpi_sales_qty_ytd, kpi_sales_mtd,
          kpi_sales_qty_mtd, line_agg_sales, color_discrete_map, narrowed

\* pc: "read" while the CSV is read, "shown" after a run that rendered the
\*     page, "error" after a run that raised.
\* data: the bag of CSV records.  narrowed: history only, TRUE once some run
\*     of the session had a city other than the sentinel selected.
\* The other variables are the script's variables of the same name.
vars == <<pc, data, db_dataset, db_cities, selected_city, filtered_sales,
          mtd_filtered_sales, kpi_sales_ytd, kpi_sales_qty_ytd, kpi_sales_mtd,
          kpi_sales_qty_mtd, line_agg_sales, color_discrete_map, narrowed>>

-----------------------------------------------------------------------------
(* Bounds and input universes *)

MaxRows == 2

\* City names as character codes.
Ab == <<65, 98>>                     \* "Ab"
ab == <<97, 98>>                     \* "ab"  (differs from "Ab" in case only)
AA == <<32, 32, 65, 65>>             \* "  AA" (two leading blanks)
OF == <<79, 39, 70>>                 \* "O'F"  (contains an apostrophe)
Cities == {Ab, ab, AA, OF}

ProductTypes == {"Phone", "Cable"}

Dates == {<<2018, 9, 5>>, <<2019, 9, 5>>, <<2019, 9, 14>>, <<2019, 9, 15>>}

\* Quantity Ordered and Price of a record: 1 at "1,000.004" or 2 at "2.50".
OrderLines == {[Quantity_Ordered |-> 1,
                Price |-> <<"1", ",", "0", "0", "0", ".", "0", "0", "4">>],
               [Quantity_Ordered |-> 2, Price |-> <<"2", ".", "5", "0">>]}

RawRows == {[Order_Date |-> d, City |-> c, Product_Type |-> t,
             Quantity_Ordered |-> l.Quantity_Ordered, Price |-> l.Price] :
            d \in Dates, c \in Cities, t \in ProductTypes, l \in OrderLines}

\* Years of the month labels looked up in the colour map.
LabelYears == {2018, 2019}

-----------------------------------------------------------------------------
(* Constants of the script *)

CURRENT_DATE == <<2019, 9, 15>>
current_year == CURRENT_DATE[1]
current_month == CURRENT_DATE[2]

months_list == <<"January", "February", "March", "April", "May", "June", "July",
                 "August", "September", "October", "November", "December">>

\* '  All Cities'
AllCities == <<32, 32, 65, 108, 108, 32, 67, 105, 116, 105, 101, 115>>

\* The one cell  .df()[col].iloc[0]  of a SUM query: SQL NULL (NaN in the data
\* frame) or a number.
NULL == <<>>
Number(v) == <<v>>
\* A script variable that the aborted run never assigned.
Unset == "unset"

-----------------------------------------------------------------------------
(* Dates and strings *)

DateLT(a, b) ==
    \/ a[1] < b[1]
    \/ a[1] = b[1] /\ a[2] < b[2]
    \/ a[1] = b[1] /\ a[2] = b[2] /\ a[3] < b[3]

\* STRFTIME(d, '%B %Y') and f"{month} {year}": month name and year.
MonthLabel(m, y) == <<months_list[m], y>>

\* Binary string ordering, as DuckDB orders VARCHAR by default.
RECURSIVE StrLT(_, _)
StrLT(a, b) ==
    IF b = <<>> THEN FALSE
    ELSE IF a = <<>> THEN TRUE
    ELSE IF a[1] # b[1] THEN a[1] < b[1]
    ELSE StrLT(Tail(a), Tail(b))

\* ORDER BY over a set of distinct strings.
RECURSIVE OrderBy(_)
OrderBy(S) ==
    IF S = {} THEN <<>>
    ELSE LET least == CHOOSE x \in S : \A y \in S \ {x} : StrLT(x, y)
         IN  <<least>> \o OrderBy(S \ {least})

-----------------------------------------------------------------------------
(* Numbers *)

DigitValue == [c \in {"0", "1", "2", "3", "4", "5", "6", "7", "8", "9"} |->
               CASE c = "0" -> 0 [] c = "1" -> 1 [] c = "2" -> 2 [] c = "3" -> 3
                 [] c = "4" -> 4 [] c = "5" -> 5 [] c = "6" -> 6 [] c = "7" -> 7
                 [] c = "8" -> 8 [] c = "9" -> 9]

\* REPLACE("Price", ',', '')
StripCommas(s) == SelectSeq(s, LAMBDA c : c # ",")

RECURSIVE DigitsToInt(_)
DigitsToInt(s) ==
    IF s = <<>> THEN 0
    ELSE DigitsToInt(SubSeq(s, 1, Len(s) - 1)) * 10 + DigitValue[s[Len(s)]]

\* '<digits>.<digits>'::FLOAT, in thousandths (at most three decimals are kept).
ParseFloat(s) ==
    LET dots == {i \in 1..Len(s) : s[i] = "."}
        dot  == IF dots = {} THEN Len(s) + 1 ELSE CHOOSE i \in dots : TRUE
        int  == SubSeq(s, 1, dot - 1)
        frac == SubSeq(s, dot + 1, Len(s))
        f3   == SubSeq(frac \o <<"0", "0", "0">>, 1, 3)
    IN  DigitsToInt(int) * 1000 + DigitsToInt(f3)

\* ROUND(x, 2) on thousandths: to the nearest hundredth, halves away from zero.
Round2(x) == IF x >= 0 THEN ((x + 5) \div 10) * 10 ELSE -(((-x + 5) \div 10) * 10)

\* Sum of the values of a function with a finite domain.
RECURSIVE SumOver(_)
SumOver(F) ==
    IF DOMAIN F = {} THEN 0
    ELSE LET r == CHOOSE x \in DOMAIN F : TRUE
         IN  F[r] + SumOver([x \in DOMAIN F \ {r} |-> F[x]])

\* SELECT SUM(col) FROM t, without GROUP BY: one row, NULL when t has no rows.
SqlSum(F) == IF DOMAIN F = {} THEN NULL ELSE Number(SumOver(F))

-----------------------------------------------------------------------------
(* The queries *)

GroupKey(r) == <<r.Order_Date, r.City, r.Product_Type>>

\* WHERE "Order Date" < '{current_date}', with <= in place of < .
BeforeCutoff_inclusive(d, current_date) == ~DateLT(current_date, d)

\* WHERE "Order Date" < '{current_date}'
BeforeCutoff(d, current_date) == DateLT(d, current_date)

\* get_sales_data: rows is the bag of CSV records.
get_sales_data(rows, current_date) ==
    LET kept   == {r \in DOMAIN rows : BeforeCutoff(r.Order_Date, current_date)}
        grp(k) == {r \in kept : GroupKey(r) = k}
    IN  {[Order_Date       |-> k[1],
          Order_Day        |-> k[1][3],
          Order_Month      |-> MonthLabel(k[1][2], k[1][1]),
          MonthYearSort    |-> k[1][1] * 100 + k[1][2],
          City             |-> k[2],
          Product_Type     |-> k[3],
          Quantity_Ordered |-> SumOver([r \in grp(k) |-> rows[r] * r.Quantity_Ordered]),
          Price            |-> Round2(SumOver([r \in grp(k) |->
                                   rows[r] * ParseFloat(StripCommas(r.Price))]))]
         : k \in {GroupKey(r) : r \in kept}}

\* get_cities: the sentinel UNION the distinct cities, ORDER BY "City".
get_cities(dataset) == OrderBy({AllCities} \cup {r.City : r \in dataset})

\* The text between the quotes of  '{selected_city}'  as DuckDB's lexer reads
\* it: a doubled apostrophe is one apostrophe, a single one closes the literal.
\* lit is what was read so far, rest what follows.
RECURSIVE ReadLiteral(_, _)
ReadLiteral(lit, rest) ==
    IF rest = <<>> THEN [closed |-> FALSE, value |-> lit, rest |-> rest]
    ELSE IF rest[1] # 39 THEN ReadLiteral(Append(lit, rest[1]), Tail(rest))
    ELSE IF Len(rest) >= 2 /\ rest[2] = 39
         THEN ReadLiteral(Append(lit, 39), Tail(Tail(rest)))
    ELSE [closed |-> TRUE, value |-> lit, rest |-> Tail(rest)]

\* ... WHERE "City" = '{selected_city}': the f-string puts the name between
\* apostrophes and the lexer reads the literal back.
CityLiteral(city) == ReadLiteral(<<>>, city \o <<39>>)

\* Text left over after the closing apostrophe of the literal makes the
\* statement unparsable: db.sql raises and the run of the script ends there.
QueryParses(city) == CityLiteral(city).closed /\ CityLiteral(city).rest = <<>>

\* SELECT * FROM filtered_sales WHERE "City" = '{selected_city}'
city_query(base, city) == {r \in base : r.City = CityLiteral(city).value}

\* if selected_city != "  All Cities": does the script run the city query?
IsFiltered(city) == city # AllCities

\* filtered_sales = db_dataset, narrowed unless the sentinel is selected.
apply_city_filter(dataset, city) ==
    IF IsFiltered(city) THEN city_query(dataset, city) ELSE dataset

\* A truncation that keeps the month and drops the year, as MONTH(d) would.
DateTruncMonth_month_only(d) == <<0, d[2], 1>>

\* DATE_TRUNC('month', d): the first day of d's month.
DateTruncMonth(d) == <<d[1], d[2], 1>>

mtd_query(filtered, current_date) ==
    {r \in filtered : DateTruncMonth(r.Order_Date) = DateTruncMonth(current_date)}

kpi_price(table) == SqlSum([r \in table |-> r.Price])
kpi_qty(table) == SqlSum([r \in table |-> r.Quantity_Ordered])

\* The window without PARTITION BY: a running sum across all months.
WindowSum_all_months(filtered, r) ==
    SumOver([x \in {y \in filtered : y.Order_Day <= r.Order_Day} |-> x.Price])

\* The window with a ROWS frame that stops at the row itself and reads the
\* other rows of its day as coming later.
WindowSum_own_row(filtered, r) ==
    SumOver([x \in {y \in filtered : /\ y.Order_Month = r.Order_Month
                                     /\ \/ y.Order_Day < r.Order_Day
                                        \/ y = r} |-> x.Price])

\* SUM("Price") OVER (PARTITION BY "Order Month" ORDER BY "Order Day"): the
\* default frame runs from the start of the partition to the last peer of the
\* current row, so rows of the same day all get the sum up to that day.
WindowSum(filtered, r) ==
    SumOver([x \in {y \in filtered : /\ y.Order_Month = r.Order_Month
                                     /\ y.Order_Day <= r.Order_Day} |-> x.Price])

CumulativeRow(filtered, r) ==
    [Order_Day |-> r.Order_Day, Order_Month |-> r.Order_Month,
     Cumulative_Price |-> WindowSum(filtered, r)]

\* ... ORDER BY "Order Date": the rows of the earliest date first.
RECURSIVE get_cumulative_sales_from(_, _)
get_cumulative_sales_from(filtered, todo) ==
    IF todo = {} THEN <<>>
    ELSE LET first == CHOOSE r \in todo :
                          \A x \in todo : ~DateLT(x.Order_Date, r.Order_Date)
         IN  <<CumulativeRow(filtered, first)>>
             \o get_cumulative_sales_from(filtered, todo \ {first})

get_cumulative_sales(filtered) == get_cumulative_sales_from(filtered, filtered)

\* color_discrete_map, a function from month labels to colours.
ColorMap(date) ==
    LET year  == date[1]
        month == date[2]
        grey  == [l \in {MonthLabel(m, year) : m \in 1..12} |-> "grey"]
        red   == [grey EXCEPT ![MonthLabel(month, year)] = "red"]
    IN  IF month > 1
        THEN [red EXCEPT ![MonthLabel(month - 1, year)] = "orange"]
        ELSE red

\* The colour the charts draw a label in: a label without an entry gets the
\* next colour of the chart library's own palette.
ColorOf(map, label) == IF label \in DOMAIN map THEN map[label] ELSE "palette"

-----------------------------------------------------------------------------
(* The script *)

\* A run that narrows the table the previous run left behind.
FilterBase_previous(dataset) == IF pc = "shown" THEN filtered_sales ELSE dataset

\* filtered_sales = db_dataset: every run starts from the whole grouped table.
FilterBase(dataset) == dataset

\* One execution of the script with `city` in the select box.
Run(city) ==
    LET dataset  == get_sales_data(data, CURRENT_DATE)
        raises   == IsFiltered(city) /\ ~QueryParses(city)
        filtered == apply_city_filter(FilterBase(dataset), city)
        mtd      == mtd_query(filtered, CURRENT_DATE)
    IN  /\ db_dataset' = dataset
        /\ db_cities' = get_cities(dataset)
        /\ color_discrete_map' = ColorMap(CURRENT_DATE)
        /\ selected_city' = city
        /\ IF raises
           THEN /\ pc' = "error"
                /\ filtered_sales' = Unset
                /\ mtd_filtered_sales' = Unset
                /\ kpi_sales_ytd' = Unset
                /\ kpi_sales_qty_ytd' = Unset
                /\ kpi_sales_mtd' = Unset
                /\ kpi_sales_qty_mtd' = Unset
                /\ line_agg_sales' = Unset
           ELSE /\ pc' = "shown"
                /\ filtered_sales' = filtered
                /\ mtd_filtered_sales' = mtd
                /\ kpi_sales_ytd' = kpi_price(filtered)
                /\ kpi_sales_qty_ytd' = kpi_qty(filtered)
                /\ kpi_sales_mtd' = kpi_price(mtd)
                /\ kpi_sales_qty_mtd' = kpi_qty(mtd)
                /\ line_agg_sales' = get_cumulative_sales(filtered)

Init ==
    /\ pc = "read"
    /\ data = EmptyBag
    /\ db_dataset = Unset
    /\ db_cities = Unset
    /\ selected_city = Unset
    /\ filtered_sales = Unset
    /\ mtd_filtered_sales = Unset
    /\ kpi_sales_ytd = Unset
    /\ kpi_sales_qty_ytd = Unset
    /\ kpi_sales_mtd = Unset
    /\ kpi_sales_qty_mtd = Unset
    /\ line_agg_sales = Unset
    /\ color_discrete_map = Unset
    /\ narrowed = FALSE

\* db.read_csv takes one more record of the file.
ReadRow(r) ==
    /\ pc = "read"
    /\ BagCardinality(data) < MaxRows
    /\ data' = data (+) SetToBag({r})
    /\ UNCHANGED <<pc, db_dataset, db_cities, selected_city, filtered_sales,
                   mtd_filtered_sales, kpi_sales_ytd, kpi_sales_qty_ytd,
                   kpi_sales_mtd, kpi_sales_qty_mtd, line_agg_sales,
                   color_discrete_map, narrowed>>

\* The page is opened: the select box shows its first option.
FirstRun ==
    /\ pc = "read"
    /\ \E first \in {get_cities(get_sales_data(data, CURRENT_DATE))[1]} :
          /\ Run(first)
          /\ narrowed' = IsFiltered(first)
    /\ UNCHANGED data

\* The user picks an option of the select box; the script runs again.
SelectCity(c) ==
    /\ pc \in {"shown", "error"}
    /\ c # selected_city
    /\ Run(c)
    /\ narrowed' = (narrowed \/ IsFiltered(c))
    /\ UNCHANGED data

Next ==
    \/ \E r \in RawRows : ReadRow(r)
    \/ FirstRun
    \/ \E i \in 1..(1 + Cardinality(Cities)) :
          /\ pc \in {"shown", "error"}
          /\ i <= Len(db_cities)
          /\ SelectCity(db_cities[i])

Spec == Init /\ [][Next]_vars

-----------------------------------------------------------------------------
(* Properties *)

Shown == pc = "shown"
Ran == pc \in {"shown", "error"}

\* The raw records of a group, each with the number of times it was read.
Contributing(k) ==
    [r \in {x \in DOMAIN data : GroupKey(x) = k /\ DateLT(x.Order_Date, CURRENT_DATE)}
       |-> data[r]]

RawPrice(r) == ParseFloat(StripCommas(r.Price))
ExactPrice(k) == SumOver([r \in DOMAIN Contributing(k) |-> Contributing(k)[r] * RawPrice(r)])
ExactQuantity(k) ==
    SumOver([r \in DOMAIN Contributing(k) |-> Contributing(k)[r] * r.Quantity_Ordered])
KeysBeforeCutoff ==
    {GroupKey(r) : r \in {x \in DOMAIN data : DateLT(x.Order_Date, CURRENT_DATE)}}
TotalPrice(table) == SumOver([r \in table |-> r.Price])
TotalQuantity(table) == SumOver([r \in table |-> r.Quantity_Ordered])
Abs(x) == IF x >= 0 THEN x ELSE -x

\* One grouped row per combination that occurs before the cutoff, none else.
OneRowPerKey ==
    /\ {GroupKey(g) : g \in db_dataset} = KeysBeforeCutoff
    /\ \A g, h \in db_dataset : GroupKey(g) = GroupKey(h) => g = h
    /\ \A g \in db_dataset : DateLT(g.Order_Date, CURRENT_DATE)

C2_EmptySumIsZero ==
    Shown => /\ filtered_sales = {} => /\ kpi_sales_ytd = Number(0)
                                       /\ kpi_sales_qty_ytd = Number(0)
             /\ mtd_filtered_sales = {} => /\ kpi_sales_mtd = Number(0)
                                           /\ kpi_sales_qty_mtd = Number(0)

\* C3 as stated: with the sentinel selected the filtered table has the rows of
\* the grouped table; with any other value selected it has exactly the grouped
\* rows whose city equals the selected value.
C3_ExactCityFilter ==
    Ran => /\ Shown
           /\ filtered_sales = IF selected_city = AllCities
                               THEN db_dataset
                               ELSE {r \in db_dataset : r.City = selected_city}

Range(s) == {s[i] : i \in DOMAIN s}
MonthRows(table, label) == {r \in table : r.Order_Month = label}

\* C4: for every month label of the cumulative output, the cumulative price of
\* the rows of the largest order day of that month equals the total price of
\* that month in the filtered grouped table.
C4_LastDayIsMonthTotal ==
    Shown => \A o \in Range(line_agg_sales) :
                (\A x \in Range(line_agg_sales) :
                    x.Order_Month = o.Order_Month => x.Order_Day <= o.Order_Day)
                => o.Cumulative_Price
                     = TotalPrice(MonthRows(filtered_sales, o.Order_Month))

C4_Witness ==
    /\ Shown
    /\ \E a, b \in filtered_sales :
          /\ a.Order_Month = b.Order_Month
          /\ a.Order_Day < b.Order_Day
          /\ \E o \in Range(line_agg_sales) :
                /\ o.Order_Month = b.Order_Month
                /\ o.Order_Day = b.Order_Day
                /\ o.Cumulative_Price = a.Price + b.Price

\* What one run computes from the grouped table, the selection and the date.
Fresh(dataset, city, date) ==
    LET filtered == IF city = AllCities THEN dataset
                    ELSE {r \in dataset : r.City = city}
        mtd      == {r \in filtered : /\ r.Order_Date[1] = date[1]
                                      /\ r.Order_Date[2] = date[2]}
    IN  [filtered |-> filtered, mtd |-> mtd,
         ytd |-> kpi_price(filtered), qty_ytd |-> kpi_qty(filtered),
         mtd_price |-> kpi_price(mtd), qty_mtd |-> kpi_qty(mtd)]

Outputs ==
    [filtered |-> filtered_sales, mtd |-> mtd_filtered_sales,
     ytd |-> kpi_sales_ytd, qty_ytd |-> kpi_sales_qty_ytd,
     mtd_price |-> kpi_sales_mtd, qty_mtd |-> kpi_sales_qty_mtd]

\* C5: after any sequence of selections the filtered table, the month-to-date
\* table and the four KPI values are what a fresh computation from the grouped
\* table, the current selection and the reference date gives; with the
\* sentinel selected again they are those of the unfiltered table.
C5_OutputsDependOnSelectionOnly ==
    Shown => /\ Outputs = Fresh(db_dataset, selected_city, CURRENT_DATE)
             /\ selected_city = AllCities =>
                   /\ filtered_sales = db_dataset
                   /\ kpi_sales_ytd = kpi_price(db_dataset)
                   /\ kpi_sales_qty_ytd = kpi_qty(db_dataset)

\* The sentinel selected again after a real city of a table with two cities.
C5_Witness ==
    /\ Shown
    /\ selected_city = AllCities
    /\ narrowed
    /\ Cardinality({r.City : r \in db_dataset}) = 2
    /\ filtered_sales = db_dataset

\* C6: the month-to-date table has exactly the rows of the filtered table
\* whose order date is in the reference date's year and month: a subset of the
\* filtered table with no row of that month in another year and no row of a
\* city other than the selected one.
C6_MonthToDateRows ==
    Shown => /\ mtd_filtered_sales
                 = {r \in filtered_sales : /\ r.Order_Date[1] = current_year
                                           /\ r.Order_Date[2] = current_month}
             /\ mtd_filtered_sales \subseteq filtered_sales
             /\ \A r \in mtd_filtered_sales : r.Order_Date[1] = current_year
             /\ selected_city # AllCities =>
                   \A r \in mtd_filtered_sales : r.City = selected_city

\* A real city selected whose rows are one of this month and one of the same
\* month a year earlier.
C6_Witness ==
    /\ Shown
    /\ selected_city # AllCities
    /\ \E r \in filtered_sales : /\ r.Order_Date[2] = current_month
                                 /\ r.Order_Date[1] # current_year
    /\ mtd_filtered_sales # {}
    /\ mtd_filtered_sales # filtered_sales

\* C7 as stated: the city list is the sentinel followed by the distinct city
\* names in strictly ascending order.
C7_SentinelFirst ==
    Ran => /\ db_cities[1] = AllCities
           /\ Range(Tail(db_cities)) = {r.City : r \in db_dataset}
           /\ \A i, j \in DOMAIN Tail(db_cities) :
                 i < j => StrLT(Tail(db_cities)[i], Tail(db_cities)[j])

\* The month before month m of year y.
PreviousMonth(y, m) == IF m = 1 THEN <<y - 1, 12>> ELSE <<y, m - 1>>

\* C8 as stated: every label of a month up to the reference date's is mapped
\* to the current-month colour iff it is the reference month, to the
\* previous-month colour iff it is the month before, else to the neutral one.
C8_RecencyColours ==
    Ran => \A y \in LabelYears, m \in 1..12 :
              ~DateLT(CURRENT_DATE, <<y, m, 1>>) =>
                 ColorOf(color_discrete_map, MonthLabel(m, y))
                   = IF <<y, m>> = <<current_year, current_month>> THEN "red"
                     ELSE IF <<y, m>> = PreviousMonth(current_year, current_month)
                          THEN "orange"
                     ELSE "grey"

BagOfSeq(s) == [x \in Range(s) |-> Cardinality({i \in DOMAIN s : s[i] = x})]
OutputOfMonth(label) == SelectSeq(line_agg_sales, LAMBDA o : o.Order_Month = label)
Orderings(S) ==
    {f \in [1..Cardinality(S) -> S] :
        /\ \A i, j \in DOMAIN f : i # j => f[i] # f[j]
        /\ \A i, j \in DOMAIN f : i < j => f[i].Order_Day <= f[j].Order_Day}
RunningSum(f) ==
    [i \in DOMAIN f |->
       [Order_Day |-> f[i].Order_Day, Order_Month |-> f[i].Order_Month,
        Cumulative_Price |-> SumOver([j \in 1..i |-> f[j].Price])]]

\* C9 as stated: within a month the rows are accumulated one at a time in
\* order of day, rows of the same day in some row order, each row's value
\* being the sum of the rows up to and including itself.
C9_OneRowAtATime ==
    Shown => \A label \in {r.Order_Month : r \in filtered_sales} :
                \E f \in Orderings(MonthRows(filtered_sales, label)) :
                   BagOfSeq(OutputOfMonth(label)) = BagOfSeq(RunningSum(f))

\* C9 amended: the output has one row per filtered row, and a row's cumulative
\* price is the total price of all rows of its month with an order day not
\* after its own, the other rows of its own day included.
C9_PeersShareTheSum ==
    Shown => /\ Len(line_agg_sales) = Cardinality(filtered_sales)
             /\ \A r \in filtered_sales :
                   Cardinality({i \in DOMAIN line_agg_sales :
                                   /\ line_agg_sales[i].Order_Day = r.Order_Day
                                   /\ line_agg_sales[i].Order_Month = r.Order_Month})
                     = Cardinality({x \in filtered_sales :
                                       /\ x.Order_Day = r.Order_Day
                                       /\ x.Order_Month = r.Order_Month})
             /\ \A o \in Range(line_agg_sales) :
                   o.Cumulative_Price
                     = TotalPrice({x \in filtered_sales :
                                      /\ x.Order_Month = o.Order_Month
                                      /\ x.Order_Day <= o.Order_Day})

\* Two rows of one day: both output rows carry the sum of the two.
C9_Witness ==
    /\ Shown
    /\ \E a, b \in filtered_sales :
          /\ a # b
          /\ a.Order_Date = b.Order_Date
          /\ Len(line_agg_sales) = 2
          /\ \A i \in DOMAIN line_agg_sales :
                line_agg_sales[i].Cumulative_Price = a.Price + b.Price

ZeroIfNull(v) == IF v = NULL THEN 0 ELSE v[1]
RealCities == {r.City : r \in db_dataset}
PerCity(kpi(_), mtd) ==
    SumOver([c \in RealCities |->
               ZeroIfNull(kpi(IF mtd
                              THEN mtd_query(apply_city_filter(db_dataset, c), CURRENT_DATE)
                              ELSE apply_city_filter(db_dataset, c)))])

\* C10 as stated: when no city is named like the sentinel, the four sums with
\* the sentinel selected equal the sums over the cities of the city list of
\* the sums with that city selected, an empty per-city sum counting as zero.
C10_CitiesPartitionTheTotals ==
    (Shown /\ selected_city = AllCities /\ AllCities \notin RealCities) =>
       /\ \A c \in RealCities : QueryParses(c)
       /\ kpi_sales_ytd = Number(PerCity(kpi_price, FALSE))
       /\ kpi_sales_qty_ytd = Number(PerCity(kpi_qty, FALSE))
       /\ kpi_sales_mtd = Number(PerCity(kpi_price, TRUE))
       /\ kpi_sales_qty_mtd = Number(PerCity(kpi_qty, TRUE))

====
